---- MODULE Spec2Model ----
(***************************************************************************)
(* Model of spyv2_backend.py: the two decision functions                   *)
(* (detect_trade_signal, manage_risk) and the three Flask handlers         *)
(* (test_route, execute_trade, get_trades) over the remote 'trades' table. *)
(*                                                                         *)
(* Python dicts are functions whose DOMAIN is the set of keys present.     *)
(* Multipliers (stop_loss, take_profit) are floats in the source; here     *)
(* they are rationals n / MULT_DEN, and  a >= m * b  is computed as        *)
(* a * MULT_DEN >= n * b, which is exact for the halves the source uses.   *)
(***************************************************************************)
EXTENDS Integers, Sequences, FiniteSets, TLC

\* ---------------------------------------------------------------- bounds
MaxAdxSpan == 2
MaxPrice == 2
MaxAmount == 2
MaxMult == 3
MaxReqs == 2

\* ------------------------------------------------------------- constants
ADX_THRESHOLD == 25
MULT_DEN == 2
DEFAULT_STOP_LOSS == 1
DEFAULT_TAKE_PROFIT == 2

VARIABLES
  data,         \* argument of detect_trade_signal
  signal,       \* its return value, "pending" before the call
  trade,        \* the dict passed to manage_risk (mutated in place)
  trade_in,     \* history: the dict as it was when manage_risk was called
  stop_loss,    \* manage_risk argument, in units of 1/MULT_DEN
  take_profit,  \* manage_risk argument, in units of 1/MULT_DEN
  returned,     \* <<>> before manage_risk returns, <<dict>> after
  trades,       \* the remote 'trades' table, in store order
  inserted_by,  \* for each row of trades, the request whose insert stored it
  store_calls,  \* number of insert/select calls issued to the store
  reqs          \* the HTTP requests

vars == <<data, signal, trade, trade_in, stop_loss, take_profit, returned,
          trades, inserted_by, store_calls, reqs>>

\* ------------------------------------------------------------ dict helpers
\* dict.get(k, default)
Get(d, k, default) == IF k \in DOMAIN d THEN d[k] ELSE default

\* d[k] = v
SetItem(d, k, v) == [x \in DOMAIN d \cup {k} |-> IF x = k THEN v ELSE d[x]]

\* the dict d with only the keys in K kept
Restrict(d, K) == [k \in K |-> d[k]]

\* all dicts obtained from the fully populated dicts by dropping keys
Dicts(full, keys) == { Restrict(d, K) : d \in full, K \in SUBSET keys }

\* ------------------------------------------------------ detect_trade_signal
detect_trade_signal_ge(d) ==
  LET adx   == Get(d, "ADX", 0)
      price == Get(d, "price", 0)
      vwap  == Get(d, "VWAP", 0)
  IN  IF adx >= ADX_THRESHOLD /\ price > vwap THEN "Bullish Signal"
      ELSE IF adx >= ADX_THRESHOLD /\ price < vwap THEN "Bearish Signal"
      ELSE "No Trade"

detect_trade_signal_default(d) ==
  LET adx   == Get(d, "ADX", 0)
      price == Get(d, "price", 1)
      vwap  == Get(d, "VWAP", 0)
  IN  IF adx > ADX_THRESHOLD /\ price > vwap THEN "Bullish Signal"
      ELSE IF adx > ADX_THRESHOLD /\ price < vwap THEN "Bearish Signal"
      ELSE "No Trade"

detect_trade_signal(d) ==
  LET adx   == Get(d, "ADX", 0)
      price == Get(d, "price", 0)
      vwap  == Get(d, "VWAP", 0)
  IN  IF adx > ADX_THRESHOLD /\ price > vwap THEN "Bullish Signal"
      ELSE IF adx > ADX_THRESHOLD /\ price < vwap THEN "Bearish Signal"
      ELSE "No Trade"

\* -------------------------------------------------------------- manage_risk
manage_risk_noguard(t, sl, tp) ==
  LET entry_price == Get(t, "entry_price", 0)
      loss        == Get(t, "loss", 0)
      profit      == Get(t, "profit", 0)
  IN  IF loss * MULT_DEN >= sl * entry_price THEN SetItem(t, "status", "closed")
      ELSE IF profit * MULT_DEN >= tp * entry_price
           THEN SetItem(t, "status", "closed")
      ELSE t

manage_risk_strict(t, sl, tp) ==
  LET entry_price == Get(t, "entry_price", 0)
      loss        == Get(t, "loss", 0)
      profit      == Get(t, "profit", 0)
  IN  IF entry_price = 0 THEN t
      ELSE IF loss * MULT_DEN > sl * entry_price
           THEN SetItem(t, "status", "closed")
      ELSE IF profit * MULT_DEN > tp * entry_price
           THEN SetItem(t, "status", "closed")
      ELSE t

manage_risk_reset(t, sl, tp) ==
  LET entry_price == Get(t, "entry_price", 0)
      loss        == Get(t, "loss", 0)
      profit      == Get(t, "profit", 0)
      closed      == SetItem(SetItem(SetItem(t, "status", "closed"),
                                     "profit", 0), "loss", 0)
  IN  IF entry_price = 0 THEN t
      ELSE IF loss * MULT_DEN >= sl * entry_price THEN closed
      ELSE IF profit * MULT_DEN >= tp * entry_price THEN closed
      ELSE t

manage_risk(t, sl, tp) ==
  LET entry_price == Get(t, "entry_price", 0)
      loss        == Get(t, "loss", 0)
      profit      == Get(t, "profit", 0)
  IN  IF entry_price = 0 THEN t
      ELSE IF loss * MULT_DEN >= sl * entry_price
           THEN SetItem(t, "status", "closed")
      ELSE IF profit * MULT_DEN >= tp * entry_price
           THEN SetItem(t, "status", "closed")
      ELSE t

\* ------------------------------------------------------------ input spaces
SnapshotKeys == {"ADX", "price", "VWAP"}

AdxValues ==
  (-1 .. 1) \cup ((ADX_THRESHOLD - MaxAdxSpan) .. (ADX_THRESHOLD + MaxAdxSpan))

Prices == (-MaxPrice) .. MaxPrice

Snapshots == Dicts([ADX : AdxValues, price : Prices, VWAP : Prices], SnapshotKeys)

PositionKeys == {"entry_price", "profit", "loss", "status"}

Statuses == {"open", "executed", "closed"}

Amounts == (-MaxAmount) .. MaxAmount

Positions ==
  Dicts([entry_price : Amounts, profit : Amounts, loss : Amounts,
         status : Statuses], PositionKeys)

Multipliers == (0 .. MaxMult) \cup {DEFAULT_STOP_LOSS, DEFAULT_TAKE_PROFIT}

EmptyDict == [k \in {} |-> 0]

\* ---------------------------------------------------- request payloads
\* request.get_json(): None, a JSON array of n items, or a JSON object
NONE == "None"

PayloadKeys ==
  {"signal", "broker", "capital_allocation", "entry_price", "user_id", "status"}

FullPayloads ==
  [signal : {"Bullish Signal"}, broker : {"IBKR"}, capital_allocation : {1000},
   entry_price : {400}, user_id : {"some-uuid"}, status : {"closed"}]

\* the key sets of the object payloads: each field is present in some and
\* absent from others, with and without a status field
PayloadKeySets ==
  { K \in SUBSET PayloadKeys :
      Cardinality(K) <= 1 \/ Cardinality(PayloadKeys \ K) <= 1 }

NoPayload == [kind |-> "none", n |-> 0, obj |-> EmptyDict]

Payloads ==
  { NoPayload }
    \cup { [kind |-> "list", n |-> n, obj |-> EmptyDict] : n \in 0 .. 1 }
    \cup { [kind |-> "object", n |-> 0, obj |-> Restrict(o, K)] :
             o \in FullPayloads, K \in PayloadKeySets }

\* the bodies a request to the handler can carry: the GET routes read none
Bodies(h) == IF h = "execute_trade" THEN Payloads ELSE { NoPayload }

\* Python truth value of the payload, negated: `not payload`
Falsy_none_only(p) == p.kind = "none"

Falsy(p) ==
  \/ p.kind = "none"
  \/ p.kind = "list" /\ p.n = 0
  \/ p.kind = "object" /\ DOMAIN p.obj = {}

\* the dict passed to insert()
NewTrade_payload_status(o) ==
  [signal             |-> Get(o, "signal", "No Signal"),
   broker             |-> Get(o, "broker", "Unknown"),
   capital_allocation |-> Get(o, "capital_allocation", 0),
   entry_price        |-> Get(o, "entry_price", 0),
   status             |-> Get(o, "status", "executed"),
   user_id            |-> Get(o, "user_id", NONE)]

NewTrade(o) ==
  [signal             |-> Get(o, "signal", "No Signal"),
   broker             |-> Get(o, "broker", "Unknown"),
   capital_allocation |-> Get(o, "capital_allocation", 0),
   entry_price        |-> Get(o, "entry_price", 0),
   status             |-> "executed",
   user_id            |-> Get(o, "user_id", NONE)]

\* select("*"): every row, in store order
HasUser(row) == row.user_id # NONE

SelectAll_by_user(rows) == SelectSeq(rows, HasUser)

SelectAll(rows) == rows

\* ------------------------------------------------------------- responses
NoResponse == [kind |-> "none", code |-> 0, message |-> "", data |-> <<>>]

\* jsonify({...}), code
Json(kind, code, message, rows) ==
  [kind |-> kind, code |-> code, message |-> message, data |-> rows]

\* an exception leaves the handler: no response of the handler's is produced
Unhandled == [kind |-> "unhandled", code |-> 0, message |-> "", data |-> <<>>]

Handlers == {"test_route", "execute_trade", "get_trades"}

Reqs == 1 .. MaxReqs

IdleReq ==
  [handler |-> "", payload |-> NoPayload,
   pc |-> "idle", insert |-> <<>>, response_data |-> <<>>, seen |-> <<>>,
   failed |-> FALSE, resp |-> NoResponse]

\* the store call raises inside the handler
StoreRaises_handled(q) ==
  [q EXCEPT !.pc = "done", !.failed = TRUE,
            !.resp = Json("error", 400, "No JSON payload provided", <<>>)]

StoreRaises(q) == [q EXCEPT !.pc = "done", !.failed = TRUE, !.resp = Unhandled]

\* ------------------------------------------------------------ the program
SignalVarsIdle ==
  /\ data = EmptyDict
  /\ signal = "pending"

RiskVarsIdle ==
  /\ trade = EmptyDict
  /\ trade_in = EmptyDict
  /\ stop_loss = DEFAULT_STOP_LOSS
  /\ take_profit = DEFAULT_TAKE_PROFIT
  /\ returned = <<>>

StoreVarsIdle ==
  /\ trades = <<>>
  /\ inserted_by = <<>>
  /\ store_calls = 0
  /\ reqs = [r \in Reqs |-> IdleReq]

signalVars == <<data, signal>>
riskVars == <<trade, trade_in, stop_loss, take_profit, returned>>
storeVars == <<trades, inserted_by, store_calls, reqs>>

\* --- detect_trade_signal called on a snapshot
SignalInit ==
  /\ data \in Snapshots
  /\ signal = "pending"
  /\ RiskVarsIdle
  /\ StoreVarsIdle

DetectTradeSignal ==
  /\ signal = "pending"
  /\ signal' = detect_trade_signal(data)
  /\ UNCHANGED <<data, riskVars, storeVars>>

SignalNext == DetectTradeSignal

SignalSpec == SignalInit /\ [][SignalNext]_vars

\* --- manage_risk called on a position
RiskInit ==
  /\ trade \in Positions
  /\ trade_in = trade
  /\ stop_loss \in Multipliers
  /\ take_profit \in Multipliers
  /\ returned = <<>>
  /\ SignalVarsIdle
  /\ StoreVarsIdle

ManageRisk ==
  /\ returned = <<>>
  /\ trade' = manage_risk(trade, stop_loss, take_profit)
  /\ returned' = <<trade'>>
  /\ UNCHANGED <<trade_in, stop_loss, take_profit, signalVars, storeVars>>

RiskNext == ManageRisk

RiskSpec == RiskInit /\ [][RiskNext]_vars

\* --- the Flask application: concurrent requests over the trades table
Init ==
  /\ SignalVarsIdle
  /\ RiskVarsIdle
  /\ StoreVarsIdle

\* a request arrives and is routed to its handler
Request(r, h, p) ==
  /\ reqs[r].pc = "idle"
  /\ \A q \in Reqs : q < r => reqs[q].pc # "idle"
  /\ reqs' = [reqs EXCEPT ![r] = [IdleReq EXCEPT !.handler = h, !.payload = p,
                                                 !.pc = "start"]]
  /\ UNCHANGED <<trades, inserted_by, store_calls, signalVars, riskVars>>

test_route(r) ==
  /\ reqs[r].pc = "start"
  /\ reqs[r].handler = "test_route"
  /\ reqs' = [reqs EXCEPT ![r].pc = "done",
                          ![r].resp = Json("message", 200, "Spy MVP is running!", <<>>)]
  /\ UNCHANGED <<trades, inserted_by, store_calls, signalVars, riskVars>>

\* execute_trade up to the insert call being issued
execute_trade(r) ==
  LET q == reqs[r] IN
  /\ q.pc = "start"
  /\ q.handler = "execute_trade"
  /\ IF Falsy(q.payload)
     THEN /\ reqs' = [reqs EXCEPT ![r].pc = "done",
                        ![r].resp = Json("error", 400, "No JSON payload provided", <<>>)]
          /\ UNCHANGED store_calls
     ELSE IF q.payload.kind # "object"
     THEN \* payload.get raises AttributeError
          /\ reqs' = [reqs EXCEPT ![r].pc = "done", ![r].resp = Unhandled]
          /\ UNCHANGED store_calls
     ELSE /\ reqs' = [reqs EXCEPT ![r].pc = "insert",
                                  ![r].insert = <<NewTrade(q.payload.obj)>>]
          /\ store_calls' = store_calls + 1
  /\ UNCHANGED <<trades, inserted_by, signalVars, riskVars>>

\* the store performs the insert and replies with the inserted rows
StoreInsert_replace(r) ==
  /\ reqs[r].pc = "insert"
  /\ trades' = reqs[r].insert
  /\ inserted_by' = <<r>>
  /\ reqs' = [reqs EXCEPT ![r].pc = "insert_reply",
                          ![r].response_data = reqs[r].insert]
  /\ UNCHANGED <<store_calls, signalVars, riskVars>>

StoreInsert(r) ==
  /\ reqs[r].pc = "insert"
  /\ trades' = trades \o reqs[r].insert
  /\ inserted_by' = Append(inserted_by, r)
  /\ reqs' = [reqs EXCEPT ![r].pc = "insert_reply",
                          ![r].response_data = reqs[r].insert]
  /\ UNCHANGED <<store_calls, signalVars, riskVars>>

execute_trade_return(r) ==
  /\ reqs[r].pc = "insert_reply"
  /\ reqs' = [reqs EXCEPT ![r].pc = "done",
                ![r].resp = Json("success", 201, "", reqs[r].response_data)]
  /\ UNCHANGED <<trades, inserted_by, store_calls, signalVars, riskVars>>

\* get_trades up to the select call being issued
get_trades(r) ==
  /\ reqs[r].pc = "start"
  /\ reqs[r].handler = "get_trades"
  /\ reqs' = [reqs EXCEPT ![r].pc = "select"]
  /\ store_calls' = store_calls + 1
  /\ UNCHANGED <<trades, inserted_by, signalVars, riskVars>>

StoreSelect(r) ==
  /\ reqs[r].pc = "select"
  /\ reqs' = [reqs EXCEPT ![r].pc = "select_reply",
                          ![r].response_data = SelectAll(trades),
                          ![r].seen = trades]
  /\ UNCHANGED <<trades, inserted_by, store_calls, signalVars, riskVars>>

get_trades_return(r) ==
  /\ reqs[r].pc = "select_reply"
  /\ reqs' = [reqs EXCEPT ![r].pc = "done",
                ![r].resp = Json("success", 200, "", reqs[r].response_data)]
  /\ UNCHANGED <<trades, inserted_by, store_calls, signalVars, riskVars>>

\* .execute() raises (network, auth, schema): either the call was refused or
\* lost before the store acted (pc "insert", "select"), or the store acted and
\* its reply was lost or unreadable (pc "insert_reply", "select_reply").
\* Neither handler catches the exception.
StoreFails(r) ==
  /\ reqs[r].pc \in {"insert", "insert_reply", "select", "select_reply"}
  /\ reqs' = [reqs EXCEPT ![r] = StoreRaises(reqs[r])]
  /\ UNCHANGED <<trades, inserted_by, store_calls, signalVars, riskVars>>

Next ==
  \E r \in Reqs :
    \/ \E h \in Handlers : \E p \in Bodies(h) : Request(r, h, p)
    \/ test_route(r)
    \/ execute_trade(r)
    \/ StoreInsert(r)
    \/ execute_trade_return(r)
    \/ get_trades(r)
    \/ StoreSelect(r)
    \/ get_trades_return(r)
    \/ StoreFails(r)

Spec == Init /\ [][Next]_vars

\* ================================================================ claims

\* ---- helpers of the claims
SignalLabels == {"Bullish Signal", "Bearish Signal", "No Trade"}

\* the snapshot with every missing field set to 0
ZeroFilled(d) == [k \in SnapshotKeys |-> IF k \in DOMAIN d THEN d[k] ELSE 0]

\* the table of section 4.1, on a snapshot that has all three fields
SignalTable(d) ==
  IF d.ADX > 25 /\ d.price > d.VWAP THEN "Bullish Signal"
  ELSE IF d.ADX > 25 /\ d.price < d.VWAP THEN "Bearish Signal"
  ELSE "No Trade"

\* the value of key k in dict d, as a sequence: <<>> if absent
Field(d, k) == IF k \in DOMAIN d THEN <<d[k]>> ELSE <<>>

\* the thresholds of section 4.2 on the position as passed in, multipliers in halves
Closes(t, sl, tp) ==
  \/ Get(t, "loss", 0) * 2 >= sl * Get(t, "entry_price", 0)
  \/ Get(t, "profit", 0) * 2 >= tp * Get(t, "entry_price", 0)

\* C1: on a snapshot with numeric ADX, price and VWAP the result is Bullish
\* when ADX > 25 and price > VWAP, Bearish when ADX > 25 and price < VWAP, and
\* No Trade otherwise (ADX <= 25, ADX = 25 exactly, or price = VWAP).
C1_SignalDecision ==
  (signal # "pending" /\ DOMAIN data = SnapshotKeys) =>
    /\ (data.ADX > 25 /\ data.price > data.VWAP) => signal = "Bullish Signal"
    /\ (data.ADX > 25 /\ data.price < data.VWAP) => signal = "Bearish Signal"
    /\ (data.ADX <= 25 \/ data.price = data.VWAP) => signal = "No Trade"

C1_Witness ==
  /\ signal = "No Trade"
  /\ DOMAIN data = SnapshotKeys
  /\ data.ADX = 25
  /\ data.price > data.VWAP

\* C2: absent fields count as 0 and the call always returns a label: the
\* result on any snapshot is the result on the snapshot with its missing
\* fields set to 0, and the empty snapshot gives No Trade.
C2_AbsentFieldsAreZero ==
  signal # "pending" =>
    /\ signal \in SignalLabels
    /\ signal = SignalTable(ZeroFilled(data))
    /\ (DOMAIN data = {} => signal = "No Trade")

C2_Witness ==
  /\ signal = "Bearish Signal"
  /\ "price" \notin DOMAIN data

\* C3: manage_risk on a position whose entry_price is 0 or absent returns the
\* position with every field, status included, as it was passed in.
C3_ZeroEntryPriceNoOp ==
  (returned # <<>> /\ Get(trade_in, "entry_price", 0) = 0) =>
    /\ trade = trade_in
    /\ returned = <<trade_in>>

C3_Witness ==
  /\ returned # <<>>
  /\ "entry_price" \in DOMAIN trade_in /\ trade_in.entry_price = 0
  /\ "status" \in DOMAIN trade /\ trade.status = "open"
  /\ Get(trade_in, "loss", 0) > 0
  /\ stop_loss = 1

\* C4: with entry_price # 0, status becomes "closed" when
\* loss >= stop_loss * entry_price or profit >= take_profit * entry_price
\* (both inclusive), and keeps its prior value (or absence) otherwise.
C4_ClosesAtThresholds ==
  (returned # <<>> /\ Get(trade_in, "entry_price", 0) # 0) =>
    IF Closes(trade_in, stop_loss, take_profit)
    THEN Field(trade, "status") = <<"closed">>
    ELSE Field(trade, "status") = Field(trade_in, "status")

C4_Witness ==
  /\ returned # <<>>
  /\ Field(trade_in, "entry_price") = <<2>>
  /\ Field(trade_in, "loss") = <<1>>
  /\ Field(trade_in, "profit") = <<0>>
  /\ Field(trade_in, "status") = <<"open">>
  /\ stop_loss = 1
  /\ take_profit = 2
  /\ trade.status = "closed"

\* C5: manage_risk changes no field other than status: entry_price, profit and
\* loss are as passed in, closed or not, and the store is neither written nor
\* called.
C5_OnlyStatusChanges ==
  returned # <<>> =>
    /\ \A k \in {"entry_price", "profit", "loss"} :
         Field(trade, k) = Field(trade_in, k)
    /\ DOMAIN trade \subseteq DOMAIN trade_in \cup {"status"}
    /\ returned = <<trade>>
    /\ trades = <<>>
    /\ store_calls = 0

C5_Witness ==
  /\ returned # <<>>
  /\ Field(trade_in, "status") = <<"executed">>
  /\ Field(trade, "status") = <<"closed">>
  /\ Field(trade, "profit") = <<2>>
  /\ Field(trade, "loss") = <<1>>
  /\ Field(trade, "entry_price") = <<2>>

\* ---- helpers of the claims about the handlers
\* a missing payload, or an empty JSON object or array
EmptyOrMissing(p) ==
  \/ p.kind = "none"
  \/ p.kind = "object" /\ DOMAIN p.obj = {}
  \/ p.kind = "list" /\ p.n = 0

\* the row section 4.3 describes for a JSON object o
ExpectedRow(o) ==
  [signal             |-> IF "signal" \in DOMAIN o THEN o.signal ELSE "No Signal",
   broker             |-> IF "broker" \in DOMAIN o THEN o.broker ELSE "Unknown",
   capital_allocation |-> IF "capital_allocation" \in DOMAIN o
                          THEN o.capital_allocation ELSE 0,
   entry_price        |-> IF "entry_price" \in DOMAIN o THEN o.entry_price ELSE 0,
   status             |-> "executed",
   user_id            |-> IF "user_id" \in DOMAIN o THEN o.user_id ELSE "None"]

\* the positions in the table of the rows stored for request r
RowsOf(r) == { i \in 1 .. Len(trades) : inserted_by[i] = r }

Quiescent == \A r \in Reqs : reqs[r].pc \in {"idle", "done"}

Created == { r \in Reqs : reqs[r].resp.code = 201 }

IsPrefix(s, t) == Len(s) <= Len(t) /\ \A i \in 1 .. Len(s) : s[i] = t[i]

\* C6: execute_trade with a missing or empty payload answers 400 with the
\* fixed error body and stores nothing.
C6_EmptyPayloadRejected ==
  \A r \in Reqs :
    (reqs[r].handler = "execute_trade" /\ EmptyOrMissing(reqs[r].payload)) =>
      /\ RowsOf(r) = {}
      /\ reqs[r].pc \in {"start", "done"}
      /\ reqs[r].pc = "done" =>
           reqs[r].resp = [kind |-> "error", code |-> 400,
                           message |-> "No JSON payload provided", data |-> <<>>]

C6_Witness ==
  \E r \in Reqs :
    /\ reqs[r].handler = "execute_trade"
    /\ reqs[r].payload.kind = "object"
    /\ DOMAIN reqs[r].payload.obj = {}
    /\ reqs[r].resp.code = 400
    /\ Len(trades) = 1

\* C7 as stated, for the JSON objects section 6 gives as the request body:
\* every execute_trade request with a non-empty payload stores exactly one
\* row, status "executed" and the other columns from the payload or their
\* defaults, and answers 201 with that row.
C7_Original ==
  \A r \in Reqs :
    (/\ reqs[r].handler = "execute_trade"
     /\ reqs[r].payload.kind = "object"
     /\ ~EmptyOrMissing(reqs[r].payload)
     /\ reqs[r].pc = "done") =>
      /\ Cardinality(RowsOf(r)) = 1
      /\ \A i \in RowsOf(r) : trades[i] = ExpectedRow(reqs[r].payload.obj)
      /\ reqs[r].resp = [kind |-> "success", code |-> 201, message |-> "",
                         data |-> <<ExpectedRow(reqs[r].payload.obj)>>]

\* C7 amended: an execute_trade request with a non-empty JSON object whose
\* insert call does not raise stores exactly one row, status "executed" and
\* the other columns from the payload or their defaults, and answers 201
\* with that row; a request whose insert call raises stores at most one such
\* row and answers no 201.
C7_InsertsExecutedRow ==
  \A r \in Reqs :
    (/\ reqs[r].handler = "execute_trade"
     /\ reqs[r].payload.kind = "object"
     /\ DOMAIN reqs[r].payload.obj # {}) =>
      /\ Cardinality(RowsOf(r)) <= 1
      /\ \A i \in RowsOf(r) : trades[i] = ExpectedRow(reqs[r].payload.obj)
      /\ (reqs[r].pc = "done" /\ ~reqs[r].failed) =>
           /\ Cardinality(RowsOf(r)) = 1
           /\ reqs[r].resp = [kind |-> "success", code |-> 201, message |-> "",
                              data |-> <<ExpectedRow(reqs[r].payload.obj)>>]
      /\ reqs[r].failed => reqs[r].resp.code # 201

C7_Witness ==
  \E r \in Reqs :
    /\ reqs[r].handler = "execute_trade"
    /\ Field(reqs[r].payload.obj, "status") = <<"closed">>
    /\ "user_id" \notin DOMAIN reqs[r].payload.obj
    /\ reqs[r].resp.code = 201
    /\ \E i \in RowsOf(r) : trades[i].status = "executed"

C9_StoreFailureUnhandled ==
  \A r \in Reqs :
    reqs[r].failed =>
      /\ reqs[r].pc = "done"
      /\ reqs[r].resp.kind = "unhandled"
      /\ reqs[r].resp.kind \notin {"success", "error"}
      /\ reqs[r].resp.code \notin {200, 201, 400}

C9_Witness ==
  /\ \E r \in Reqs : reqs[r].failed /\ reqs[r].handler = "execute_trade"
  /\ \E r \in Reqs : reqs[r].failed /\ reqs[r].handler = "get_trades"

\* C10 as stated: every row has status "executed", once no request is in
\* progress the number of rows is the number of requests answered 201, and no
\* step removes or rewrites a row.
C10_OriginalState ==
  /\ \A i \in 1 .. Len(trades) : trades[i].status = "executed"
  /\ Quiescent => Len(trades) = Cardinality(Created)

C10_Original == [](C10_OriginalState) /\ [][IsPrefix(trades, trades')]_vars

\* C10 amended: every row has status "executed"; every row was stored by one
\* execute_trade request, each request storing at most one; once no request
\* is in progress the number of rows is at least the number of requests
\* answered 201, and equal to it when no insert call raised; and no step
\* removes or rewrites a row.
C10_State ==
  /\ \A i \in 1 .. Len(trades) : trades[i].status = "executed"
  /\ Len(inserted_by) = Len(trades)
  /\ \A i \in 1 .. Len(trades) : reqs[inserted_by[i]].handler = "execute_trade"
  /\ \A r \in Reqs : Cardinality(RowsOf(r)) <= 1
  /\ Created \subseteq { r \in Reqs : RowsOf(r) # {} }
  /\ Quiescent =>
       /\ Len(trades) >= Cardinality(Created)
       /\ (\A r \in Reqs : reqs[r].handler = "execute_trade" => ~reqs[r].failed)
            => Len(trades) = Cardinality(Created)

C10_TableOnlyGrows == [](C10_State) /\ [][IsPrefix(trades, trades')]_vars

C10_Witness ==
  /\ Quiescent
  /\ Len(trades) = 2
  /\ Cardinality(Created) = 1

====
